---- MODULE Spec2Model ----
(***************************************************************************)
(* Room Detection API (backend/main.py): the geometric post-processing     *)
(* (compute_iou, remove_overlapping_rooms, coordinate normalisation) and   *)
(* the HTTP service around it (load_model, /health, /detect).              *)
(*                                                                         *)
(* Numbers.  Python floats are modelled by exact rationals:                *)
(*   - pixel coordinates are integers (or PixDen-ths in SpecNorm);         *)
(*   - an IoU and an IoU threshold are pairs <<num, den>> with den > 0,    *)
(*     compared by cross multiplication;                                   *)
(*   - a score and the score threshold are integers in units of 1/10000,   *)
(*     a confidence (round(score, 3)) an integer in units of 1/1000;       *)
(*   - a normalised coordinate (round(v, 1)) is an integer in units of     *)
(*     1/10.                                                               *)
(* The mask-to-polygon step (cv2.findContours / approxPolyDP) and the      *)
(* network itself are external; the network's output for an upload is an   *)
(* input of the model.                                                     *)
(***************************************************************************)
EXTENDS Integers, Sequences, FiniteSets, TLC

VARIABLES
    \* ---- the service (Spec) ----
    phase,          \* "startup" | "serving" | "crashed"
    weights,        \* MODEL_PATH.exists() at startup
    MODEL,          \* "None" | "loaded"
    DEVICE,         \* "None" | "cuda" | "cpu"
    request,        \* the last request handled
    response,       \* the response to it
    steps,          \* the stages of the handler that ran for it
    \* ---- compute_iou (SpecIoU) ----
    box1, box2, iou, iou_pc,
    \* ---- remove_overlapping_rooms (SpecNMS) ----
    rooms, iou_threshold, kept_rooms, kept_again, nms_pc,
    \* ---- normalisation (SpecNorm) ----
    pixel, dimension, norm, norm_pc

vars == <<phase, weights, MODEL, DEVICE, request, response, steps,
          box1, box2, iou, iou_pc,
          rooms, iou_threshold, kept_rooms, kept_again, nms_pc,
          pixel, dimension, norm, norm_pc>>

serviceVars == <<phase, weights, MODEL, DEVICE, request, response, steps>>
iouVars     == <<box1, box2, iou, iou_pc>>
nmsVars     == <<rooms, iou_threshold, kept_rooms, kept_again, nms_pc>>
normVars    == <<pixel, dimension, norm, norm_pc>>

----------------------------------------------------------------------------
(* Bounds *)

Grid     == 3      \* compute_iou: box coordinates range over 0..Grid
NmsGrid  == 2      \* remove_overlapping_rooms: candidate boxes span 0..NmsGrid
MaxRooms == 3      \* remove_overlapping_rooms: longest candidate list
MaxConf  == 2      \* remove_overlapping_rooms: confidences 1..MaxConf
DetGrid  == 2      \* /detect: detection boxes span 0..DetGrid
MaxDet   == 3      \* /detect: most detections the network returns (SpecDetect)
SvcGrid  == 1      \* /detect: detection boxes span 0..SvcGrid (Spec)
MaxSvcDet == 1     \* /detect: most detections the network returns (Spec)
PixDen   == 2      \* normalisation: pixel coordinates are multiples of 1/PixDen
MaxDim   == 16     \* normalisation: image dimensions 1..MaxDim

----------------------------------------------------------------------------
(* Arithmetic *)

Max(a, b) == IF a >= b THEN a ELSE b
Min(a, b) == IF a <= b THEN a ELSE b
Abs(a)    == IF a >= 0 THEN a ELSE -a

\* rationals <<num, den>>, den > 0
Zero == <<0, 1>>
One  == <<1, 1>>
RatGt(a, b) == a[1] * b[2] > b[1] * a[2]
RatEq(a, b) == a[1] * b[2] = b[1] * a[2]

\* Python round(): the integer nearest to num/den (num >= 0, den > 0), a
\* half going to the even neighbour.
round_floor(num, den) == num \div den

round(num, den) ==
    LET q == num \div den
        r == num % den
    IN  IF 2 * r < den THEN q
        ELSE IF 2 * r > den THEN q + 1
        ELSE IF q % 2 = 0 THEN q ELSE q + 1

----------------------------------------------------------------------------
(* compute_iou, main.py 71-86 *)

Box(a, b, c, d) == [x1 |-> a, y1 |-> b, x2 |-> c, y2 |-> d]

compute_iou_union_sum(b1, b2) ==
    LET x1 == Max(b1.x1, b2.x1)
        y1 == Max(b1.y1, b2.y1)
        x2 == Min(b1.x2, b2.x2)
        y2 == Min(b1.y2, b2.y2)
    IN  IF x2 <= x1 \/ y2 <= y1 THEN Zero
        ELSE LET intersection == (x2 - x1) * (y2 - y1)
                 area1 == (b1.x2 - b1.x1) * (b1.y2 - b1.y1)
                 area2 == (b2.x2 - b2.x1) * (b2.y2 - b2.y1)
                 union == area1 + area2
             IN  IF union > 0 THEN <<intersection, union>> ELSE Zero

compute_iou(b1, b2) ==
    LET x1 == Max(b1.x1, b2.x1)
        y1 == Max(b1.y1, b2.y1)
        x2 == Min(b1.x2, b2.x2)
        y2 == Min(b1.y2, b2.y2)
    IN  IF x2 <= x1 \/ y2 <= y1 THEN Zero
        ELSE LET intersection == (x2 - x1) * (y2 - y1)
                 area1 == (b1.x2 - b1.x1) * (b1.y2 - b1.y1)
                 area2 == (b2.x2 - b2.x1) * (b2.y2 - b2.y1)
                 union == area1 + area2 - intersection
             IN  IF union > 0 THEN <<intersection, union>> ELSE Zero

----------------------------------------------------------------------------
(* remove_overlapping_rooms, main.py 89-107 *)

\* sorted(..., reverse=True) is stable: an element goes behind every element
\* of confidence >= its own that precedes it in the input.
RECURSIVE InsertByConfidence(_, _)
InsertByConfidence(s, r) ==
    IF s = <<>> THEN <<r>>
    ELSE IF Head(s).confidence >= r.confidence
         THEN <<Head(s)>> \o InsertByConfidence(Tail(s), r)
         ELSE <<r>> \o s

RECURSIVE InsertBeforeTies(_, _)
InsertBeforeTies(s, r) ==
    IF s = <<>> THEN <<r>>
    ELSE IF Head(s).confidence > r.confidence
         THEN <<Head(s)>> \o InsertBeforeTies(Tail(s), r)
         ELSE <<r>> \o s

RECURSIVE InsertAscending(_, _)
InsertAscending(s, r) ==
    IF s = <<>> THEN <<r>>
    ELSE IF Head(s).confidence <= r.confidence
         THEN <<Head(s)>> \o InsertAscending(Tail(s), r)
         ELSE <<r>> \o s

\* sorted(rooms)[::-1]: descending, but ties come out in reverse input order
RECURSIVE rooms_sorted_ties_reversed(_)
rooms_sorted_ties_reversed(rs) ==
    IF rs = <<>> THEN <<>>
    ELSE InsertBeforeTies(rooms_sorted_ties_reversed(SubSeq(rs, 1, Len(rs) - 1)), rs[Len(rs)])

\* sorted(rooms) without reverse=True: ascending
RECURSIVE rooms_sorted_ascending(_)
rooms_sorted_ascending(rs) ==
    IF rs = <<>> THEN <<>>
    ELSE InsertAscending(rooms_sorted_ascending(SubSeq(rs, 1, Len(rs) - 1)), rs[Len(rs)])

\* line 94: the elements are inserted one by one, in input order
RECURSIVE rooms_sorted(_)
rooms_sorted(rs) ==
    IF rs = <<>> THEN <<>>
    ELSE InsertByConfidence(rooms_sorted(SubSeq(rs, 1, Len(rs) - 1)), rs[Len(rs)])

\* the inner loop: does room overlap one of the rooms kept so far?
overlaps_last_only(room, kept, t) ==
    /\ kept # <<>>
    /\ RatGt(compute_iou(room.bbox_pixels, kept[Len(kept)].bbox_pixels), t)

overlaps_ge(room, kept, t) ==
    \E k \in 1..Len(kept) :
        LET v == compute_iou(room.bbox_pixels, kept[k].bbox_pixels)
        IN  RatGt(v, t) \/ RatEq(v, t)

overlaps(room, kept, t) ==
    \E k \in 1..Len(kept) :
        RatGt(compute_iou(room.bbox_pixels, kept[k].bbox_pixels), t)

\* the outer loop over rooms_sorted
RECURSIVE GreedyKeep(_, _, _)
GreedyKeep(rs, kept, t) ==
    IF rs = <<>> THEN kept
    ELSE GreedyKeep(Tail(rs),
                    IF overlaps(Head(rs), kept, t) THEN kept
                    ELSE Append(kept, Head(rs)),
                    t)

remove_overlapping_rooms(rs, t) ==
    IF rs = <<>> THEN rs
    ELSE GreedyKeep(rooms_sorted(rs), <<>>, t)

----------------------------------------------------------------------------
(* Coordinate normalisation, main.py 193-206:                              *)
(*     round(float(box[k]) / dimension * 1000, 1)                          *)
(* for the pixel coordinate p_num/p_den; the result is in tenths.          *)

normalize_truncating(p_num, p_den, d) == round_floor(p_num * 10000, p_den * d)

normalize(p_num, p_den, d) == round(p_num * 10000, p_den * d)

----------------------------------------------------------------------------
(* /detect, main.py 140-229 *)

\* f"room_{i+1:03d}" for the 0-based position i
Format03d(n) ==
    IF n < 10 THEN "00" \o ToString(n)
    ELSE IF n < 100 THEN "0" \o ToString(n)
    ELSE ToString(n)

room_id_zero_based(i) == "room_" \o Format03d(i)

room_id(i) == "room_" \o Format03d(i + 1)

\* f"room_{uuid.uuid4().hex[:8]}": a fresh token per detection
uuid_id(i) == "room_uuid" \o ToString(i)

\* the filter of line 176: is the detection skipped?
below_threshold_or_equal(score, threshold) == score <= threshold

below_threshold(score, threshold) == score < threshold

\* lines 199-216: the room built from detection i of outputs.  det is the
\* identity of the dict (the detection it was built from); it is not part
\* of the JSON.  vertices come from cv2 and are not modelled.
make_room(outputs, i, w, h) ==
    LET box == outputs[i].box
    IN  [id           |-> uuid_id(i),
         bounding_box |-> <<normalize(box.x1, 1, w), normalize(box.y1, 1, h),
                            normalize(box.x2, 1, w), normalize(box.y2, 1, h)>>,
         bbox_pixels  |-> box,
         confidence   |-> round(outputs[i].score, 10),
         name_hint    |-> "None",
         det          |-> i]

\* lines 173-216: the loop over the detections
RECURSIVE collect_rooms(_, _, _, _, _)
collect_rooms(outputs, i, threshold, w, h) ==
    IF i > Len(outputs) THEN <<>>
    ELSE IF below_threshold(outputs[i].score, threshold)
         THEN collect_rooms(outputs, i + 1, threshold, w, h)
         ELSE <<make_room(outputs, i, w, h)>>
              \o collect_rooms(outputs, i + 1, threshold, w, h)

\* lines 221-223
reassign_ids(rs) == [i \in 1..Len(rs) |-> [rs[i] EXCEPT !.id = room_id(i - 1)]]

\* does line 158 let an undecodable upload through?
decode_failed_unchecked(file) == FALSE

decode_failed(file) == file.decoded = "none"

NoBody == [image_size |-> <<0, 0>>, total_rooms |-> 0, rooms |-> <<>>]

\* the whole handler: <<response, stages that ran>>
detect_rooms(model, file, threshold, overlap_threshold) ==
    IF model = "None"
    THEN <<[status |-> 503, body |-> NoBody], {}>>
    ELSE IF file.decoded = "raise"
    THEN <<[status |-> 500, body |-> NoBody], {"read", "decode"}>>
    ELSE IF decode_failed(file)
    THEN <<[status |-> 400, body |-> NoBody], {"read", "decode"}>>
    ELSE LET candidates == collect_rooms(file.outputs, 1, threshold, file.w, file.h)
             kept       == remove_overlapping_rooms(candidates, overlap_threshold)
             final      == reassign_ids(kept)
         IN  <<[status |-> 200,
                body   |-> [image_size  |-> <<file.w, file.h>>,
                            total_rooms |-> Len(final),
                            rooms       |-> final]],
               {"read", "decode", "inference", "postprocess"}>>

----------------------------------------------------------------------------
(* Inputs *)

SeqsUpTo(S, n) == UNION {[1..k -> S] : k \in 0..n}

\* compute_iou: every rectangle on the grid, the empty ones (zero width or
\* height) included
Boxes ==
    {bx \in [x1 : 0..Grid, y1 : 0..Grid, x2 : 0..Grid, y2 : 0..Grid] :
        bx.x1 <= bx.x2 /\ bx.y1 <= bx.y2}

\* boxes of height 1 in one row: their IoUs are 0, 1/3, 1/2, 2/3, 1, ...
RowBoxes(g) == {bx \in [x1 : 0..g, y1 : {0}, x2 : 0..g, y2 : {1}] : bx.x1 < bx.x2}

NmsBoxes      == RowBoxes(NmsGrid)
NmsThresholds == {<<3, 10>>, <<1, 2>>}     \* 0.3 is the default
\* candidate lists; a candidate's id is its position in the list
WithIds(cs) ==
    [i \in 1..Len(cs) |->
        [id |-> i, bbox_pixels |-> cs[i].bbox_pixels, confidence |-> cs[i].confidence]]
Candidates(n) == SeqsUpTo([bbox_pixels : NmsBoxes, confidence : 1..MaxConf], n)

DetBoxes   == RowBoxes(DetGrid)
Scores     == {6996, 7000, 9000}            \* in 1/10000
Thresholds == {7000}                        \* 0.7 is the default
Overlaps   == {<<3, 10>>, <<1, 2>>}         \* 0.3 is the default
ImageSizes == {<<2 * DetGrid + 3, DetGrid + 1>>}
SvcBoxes   == RowBoxes(SvcGrid)
SvcSizes   == {<<SvcGrid + 1, SvcGrid + 1>>, <<SvcGrid + 2, SvcGrid + 1>>}
SvcThresholds == {5000, 7000}
Detections(n, boxes) == SeqsUpTo([box : boxes, score : Scores], n)

\* an upload, with what cv2.imdecode makes of its bytes (an image, None, or
\* an exception) and what the network returns for the image
Uploads(n, boxes, sizes) ==
    {[decoded |-> "none", w |-> 0, h |-> 0, outputs |-> <<>>],
     [decoded |-> "raise", w |-> 0, h |-> 0, outputs |-> <<>>]}
    \cup {[decoded |-> "image", w |-> sz[1], h |-> sz[2], outputs |-> o] :
              sz \in sizes, o \in Detections(n, boxes)}

NoRequest  == [endpoint |-> "none", file |-> [decoded |-> "none", w |-> 0, h |-> 0, outputs |-> <<>>],
               threshold |-> 0, overlap_threshold |-> Zero]
NoResponse == [status |-> 0, body |-> NoBody]

----------------------------------------------------------------------------
(* The service: Spec *)

ServiceIdle ==
    /\ phase = "startup" /\ MODEL = "None" /\ DEVICE = "None"
    /\ request = NoRequest /\ response = NoResponse /\ steps = {}
    /\ weights = FALSE
IouIdle  == box1 = Box(0, 0, 0, 0) /\ box2 = Box(0, 0, 0, 0) /\ iou = Zero /\ iou_pc = "off"
NmsIdle  == rooms = <<>> /\ iou_threshold = Zero /\ kept_rooms = <<>> /\ kept_again = <<>> /\ nms_pc = "off"
NormIdle == pixel = 0 /\ dimension = 1 /\ norm = 0 /\ norm_pc = "off"

Init ==
    /\ phase = "startup" /\ MODEL = "None" /\ DEVICE = "None"
    /\ request = NoRequest /\ response = NoResponse /\ steps = {}
    /\ weights \in BOOLEAN
    /\ IouIdle /\ NmsIdle /\ NormIdle

\* does load_model leave MODEL alone?
weights_missing_ignored(exists) == FALSE

weights_missing(exists) == ~exists

\* @app.on_event("startup"), main.py 110-128.  torch.load / load_state_dict
\* may raise on a bad checkpoint, and then the application does not start.
load_model ==
    /\ phase = "startup"
    /\ \E dev \in {"cuda", "cpu"}, checkpoint_ok \in BOOLEAN :
        /\ DEVICE' = dev
        /\ IF weights_missing(weights)
           THEN MODEL' = MODEL /\ phase' = "serving"
           ELSE IF checkpoint_ok
                THEN MODEL' = "loaded" /\ phase' = "serving"
                ELSE MODEL' = MODEL /\ phase' = "crashed"
    /\ UNCHANGED <<weights, request, response, steps>>
    /\ UNCHANGED <<iouVars, nmsVars, normVars>>

\* GET /health, main.py 131-137
health ==
    /\ phase = "serving"
    /\ request' = [NoRequest EXCEPT !.endpoint = "/health"]
    /\ response' = [status |-> 200,
                    body |-> [status |-> "healthy",
                              model_loaded |-> (MODEL # "None"),
                              device |-> DEVICE]]
    /\ steps' = {}
    /\ UNCHANGED <<phase, weights, MODEL, DEVICE>>
    /\ UNCHANGED <<iouVars, nmsVars, normVars>>

\* POST /detect, main.py 140-229
detect ==
    /\ phase = "serving"
    /\ \E file \in Uploads(MaxSvcDet, SvcBoxes, SvcSizes), threshold \in SvcThresholds, overlap_threshold \in Overlaps :
        LET result == detect_rooms(MODEL, file, threshold, overlap_threshold)
        IN  /\ request' = [endpoint |-> "/detect", file |-> file,
                           threshold |-> threshold,
                           overlap_threshold |-> overlap_threshold]
            /\ response' = result[1]
            /\ steps' = result[2]
    /\ UNCHANGED <<phase, weights, MODEL, DEVICE>>
    /\ UNCHANGED <<iouVars, nmsVars, normVars>>

Next == load_model \/ health \/ detect

Spec == Init /\ [][Next]_vars

----------------------------------------------------------------------------
(* /detect with the model loaded, on every request: SpecDetect *)

InitDetect ==
    /\ phase = "serving" /\ weights = TRUE /\ MODEL = "loaded" /\ DEVICE = "cpu"
    /\ request \in [endpoint : {"/detect"}, file : Uploads(MaxDet, DetBoxes, ImageSizes),
                     threshold : Thresholds, overlap_threshold : Overlaps]
    /\ response = NoResponse /\ steps = {}
    /\ IouIdle /\ NmsIdle /\ NormIdle

\* the handler runs for the request received
detect_received ==
    /\ phase = "serving" /\ response = NoResponse
    /\ LET result == detect_rooms(MODEL, request.file, request.threshold,
                                  request.overlap_threshold)
       IN  response' = result[1] /\ steps' = result[2]
    /\ UNCHANGED <<phase, weights, MODEL, DEVICE, request>>
    /\ UNCHANGED <<iouVars, nmsVars, normVars>>

NextDetect == detect_received

SpecDetect == InitDetect /\ [][NextDetect]_vars

----------------------------------------------------------------------------
(* compute_iou on every pair of boxes: SpecIoU *)

InitIoU ==
    /\ ServiceIdle /\ NmsIdle /\ NormIdle
    /\ box1 \in Boxes /\ box2 \in Boxes
    /\ iou = Zero /\ iou_pc = "input"

ComputeIou ==
    /\ iou_pc = "input"
    /\ iou' = compute_iou(box1, box2)
    /\ iou_pc' = "done"
    /\ UNCHANGED <<box1, box2, serviceVars, nmsVars, normVars>>

NextIoU == ComputeIou

SpecIoU == InitIoU /\ [][NextIoU]_vars

----------------------------------------------------------------------------
(* remove_overlapping_rooms on every candidate list, and again on its own  *)
(* output: SpecNMS                                                         *)

InitNMS ==
    /\ ServiceIdle /\ IouIdle /\ NormIdle
    /\ \E cs \in Candidates(MaxRooms) : rooms = WithIds(cs)
    /\ iou_threshold \in NmsThresholds
    /\ kept_rooms = <<>> /\ kept_again = <<>> /\ nms_pc = "input"

Suppress ==
    /\ nms_pc = "input"
    /\ kept_rooms' = remove_overlapping_rooms(rooms, iou_threshold)
    /\ nms_pc' = "kept"
    /\ UNCHANGED <<rooms, iou_threshold, kept_again, serviceVars, iouVars, normVars>>

SuppressAgain ==
    /\ nms_pc = "kept"
    /\ kept_again' = remove_overlapping_rooms(kept_rooms, iou_threshold)
    /\ nms_pc' = "again"
    /\ UNCHANGED <<rooms, iou_threshold, kept_rooms, serviceVars, iouVars, normVars>>

NextNMS == Suppress \/ SuppressAgain

SpecNMS == InitNMS /\ [][NextNMS]_vars

----------------------------------------------------------------------------
(* Normalisation of every pixel coordinate inside the image: SpecNorm      *)

InitNorm ==
    /\ ServiceIdle /\ IouIdle /\ NmsIdle
    /\ dimension \in 1..MaxDim
    /\ pixel \in 0..(PixDen * MaxDim)
    /\ pixel <= PixDen * dimension
    /\ norm = 0 /\ norm_pc = "input"

Normalize ==
    /\ norm_pc = "input"
    /\ norm' = normalize(pixel, PixDen, dimension)
    /\ norm_pc' = "done"
    /\ UNCHANGED <<pixel, dimension, serviceVars, iouVars, nmsVars>>

NextNorm == Normalize

SpecNorm == InitNorm /\ [][NextNorm]_vars

----------------------------------------------------------------------------
(* Properties of compute_iou (SpecIoU) *)

\* the two rectangles share no unit cell of the grid, i.e. no interior point
\* (rectangles that only touch, and empty rectangles, share none)
Covers(bx, cx, cy) == bx.x1 <= cx /\ cx + 1 <= bx.x2 /\ bx.y1 <= cy /\ cy + 1 <= bx.y2
NoOverlap(a, b) ==
    ~ \E cx \in 0..(Grid - 1), cy \in 0..(Grid - 1) : Covers(a, cx, cy) /\ Covers(b, cx, cy)
PositiveArea(bx) == bx.x1 < bx.x2 /\ bx.y1 < bx.y2

\* C7 as stated: compute_iou(b, b) = 1.0 for every box b, and compute_iou
\* is 0.0 for every pair of rectangles that do not overlap (touching ones
\* included).
C7_AsStated ==
    iou_pc = "done" =>
        /\ (box1 = box2 => RatEq(iou, One))
        /\ (NoOverlap(box1, box2) => RatEq(iou, Zero))

\* C7 amended: compute_iou(b, b) = 1.0 for every box b of positive width and
\* height (for an empty box it is 0.0), and compute_iou is 0.0 for every
\* pair of rectangles that do not overlap (touching ones included).
C7_SelfAndDisjoint ==
    iou_pc = "done" =>
        /\ (box1 = box2 /\ PositiveArea(box1) => RatEq(iou, One))
        /\ (box1 = box2 /\ ~PositiveArea(box1) => RatEq(iou, Zero))
        /\ (NoOverlap(box1, box2) => RatEq(iou, Zero))

\* a box of positive area, wider than high, compared with itself
C7_Witness ==
    /\ iou_pc = "done"
    /\ box1 = box2 /\ PositiveArea(box1)
    /\ box1.x2 - box1.x1 > box1.y2 - box1.y1
    /\ iou[1] = iou[2] /\ iou[1] > 1

----------------------------------------------------------------------------
(* Properties of remove_overlapping_rooms (SpecNMS) *)

Pairwise(a, b) == compute_iou(a.bbox_pixels, b.bbox_pixels)
Count(s, x) == Cardinality({k \in 1..Len(s) : s[k] = x})
Dropped == Len(kept_rooms) < Len(rooms)

\* C1: the returned list holds no two distinct items whose pixel boxes have
\* an IoU strictly above the threshold.
C1_NoPairAboveThreshold ==
    nms_pc # "input" =>
        \A i, j \in 1..Len(kept_rooms) :
            i # j => ~RatGt(Pairwise(kept_rooms[i], kept_rooms[j]), iou_threshold)

\* three candidates, the middle one visited rejected, the two others kept
C1_Witness ==
    /\ nms_pc = "kept" /\ Len(rooms) = 3 /\ Len(kept_rooms) = 2
    /\ \E i \in 1..3 :
        /\ \A k \in 1..2 : kept_rooms[k] # rooms[i]
        /\ rooms[i].confidence > kept_rooms[2].confidence
        /\ RatGt(Pairwise(rooms[i], kept_rooms[1]), iou_threshold)

\* C2: the output is a sub-multiset of the input (so it is no longer, and
\* empty for an empty input) and its confidences are non-increasing.
C2_SubsetInConfidenceOrder ==
    nms_pc # "input" =>
        /\ \A k \in 1..Len(kept_rooms) :
               Count(kept_rooms, kept_rooms[k]) <= Count(rooms, kept_rooms[k])
        /\ Len(kept_rooms) <= Len(rooms)
        /\ (rooms = <<>> => kept_rooms = <<>>)
        /\ \A a, b \in 1..Len(kept_rooms) :
               a < b => kept_rooms[a].confidence >= kept_rooms[b].confidence

\* an input that ends with its most confident item, one item dropped, two
\* kept
C2_Witness ==
    /\ nms_pc = "kept" /\ Len(rooms) = 3 /\ Len(kept_rooms) = 2
    /\ rooms[1].confidence < rooms[3].confidence
    /\ rooms[2].confidence < rooms[3].confidence
    /\ kept_rooms[1] = rooms[3]
    /\ kept_rooms[1].confidence > kept_rooms[2].confidence

\* C3: suppression applied to its own output returns that output, item for
\* item and in the same order.
C3_Idempotent == nms_pc = "again" => kept_again = kept_rooms

\* the second run had several items of equal confidence to visit, after a
\* first run that dropped something
C3_Witness ==
    /\ nms_pc = "again" /\ Dropped /\ Len(kept_rooms) >= 2
    /\ kept_rooms[1].confidence = kept_rooms[2].confidence

\* input position i is visited before input position j
VisitedBefore(i, j) ==
    \/ rooms[i].confidence > rooms[j].confidence
    \/ rooms[i].confidence = rooms[j].confidence /\ i < j
KeptPositions == {kept_rooms[k].id : k \in 1..Len(kept_rooms)}

\* C9: candidates are visited by descending confidence, equal confidences
\* in input order; a candidate is kept iff its IoU with every candidate kept
\* before it is <= the threshold (equal is kept, strictly above rejected);
\* the first candidate visited is kept.
C9_GreedyStableAcceptance ==
    nms_pc # "input" =>
        /\ KeptPositions \subseteq 1..Len(rooms)
        /\ \A i \in 1..Len(rooms) :
               (i \in KeptPositions) <=>
                   \A j \in KeptPositions :
                       VisitedBefore(j, i) =>
                           ~RatGt(Pairwise(rooms[i], rooms[j]), iou_threshold)
        /\ \A a, b \in 1..Len(kept_rooms) :
               a < b => VisitedBefore(kept_rooms[a].id, kept_rooms[b].id)
        /\ rooms # <<>> =>
               /\ kept_rooms # <<>>
               /\ \A j \in 1..Len(rooms) :
                      j # kept_rooms[1].id => VisitedBefore(kept_rooms[1].id, j)

\* equal confidences; one candidate kept with an IoU equal to the threshold,
\* another rejected with an IoU strictly above it
C9_Witness ==
    /\ nms_pc = "kept" /\ Len(rooms) = 3 /\ Len(kept_rooms) = 2
    /\ kept_rooms[1].confidence = kept_rooms[2].confidence
    /\ kept_rooms[1].id < kept_rooms[2].id
    /\ RatEq(Pairwise(kept_rooms[1], kept_rooms[2]), iou_threshold)
    /\ \E i \in 1..3 :
        /\ i \notin KeptPositions
        /\ \E k \in 1..2 : RatGt(Pairwise(rooms[i], kept_rooms[k]), iou_threshold)

----------------------------------------------------------------------------
(* Properties of the normalisation (SpecNorm) *)

\* |norm/10 * dimension/1000 - pixel/PixDen|, times 10000 * PixDen
RoundTripError == Abs(norm * dimension * PixDen - 10000 * pixel)

----------------------------------------------------------------------------
(* Properties of /detect (SpecDetect) *)

ExpectedIds == <<"room_001", "room_002", "room_003", "room_004", "room_005", "room_006">>

\* C4: in a successful response the ids are room_001, room_002, ... in list
\* order, and total_rooms is the length of the rooms list.
C4_SequentialIds ==
    response.status = 200 =>
        /\ response.body.total_rooms = Len(response.body.rooms)
        /\ \A k \in 1..Len(response.body.rooms) :
               response.body.rooms[k].id = ExpectedIds[k]

\* two rooms in the response, neither at the position its detection had
C4_Witness ==
    /\ response.status = 200
    /\ Len(response.body.rooms) = 2
    /\ Len(request.file.outputs) = 3
    /\ \A k \in 1..2 : response.body.rooms[k].det # k

ResponseDets == {response.body.rooms[k].det : k \in 1..Len(response.body.rooms)}

\* C10: a detection scoring strictly below the threshold is not in the
\* response and suppresses nothing (whatever is suppressed is suppressed by
\* a room of the response); a detection scoring exactly the threshold is a
\* candidate of the suppression.
C10_FilterBeforeSuppression ==
    response.status = 200 =>
        LET outs == request.file.outputs
            rs   == response.body.rooms
        IN  /\ \A k \in 1..Len(rs) : outs[rs[k].det].score >= request.threshold
            /\ \A i \in 1..Len(outs) :
                   (outs[i].score >= request.threshold /\ i \notin ResponseDets) =>
                       \E k \in 1..Len(rs) :
                           RatGt(compute_iou(outs[i].box, rs[k].bbox_pixels),
                                 request.overlap_threshold)

\* a detection below the threshold that would have been visited before, and
\* would have suppressed, a room of the response that scores exactly the
\* threshold
C10_Witness ==
    /\ response.status = 200
    /\ LET outs == request.file.outputs
           rs   == response.body.rooms
       IN  \E i \in 1..Len(outs), k \in 1..Len(rs) :
               /\ outs[i].score < request.threshold
               /\ outs[rs[k].det].score = request.threshold
               /\ i < rs[k].det
               /\ round(outs[i].score, 10) >= rs[k].confidence
               /\ RatGt(compute_iou(outs[i].box, rs[k].bbox_pixels),
                        request.overlap_threshold)

----------------------------------------------------------------------------
(* Properties of the service (Spec) *)

\* C5: with the weight file absent, startup completes with the model
\* unloaded, every /detect is answered 503 whatever is uploaded, and no
\* handler changes the model.
C5_Always503WithoutWeights ==
    /\ [](~weights => /\ phase \in {"startup", "serving"}
                      /\ MODEL = "None"
                      /\ (request.endpoint = "/detect" => response.status = 503))
    /\ [][(~weights /\ phase = "startup") => phase' = "serving"]_vars
    /\ [][phase = "serving" => (MODEL' = MODEL /\ phase' = "serving")]_vars

\* a decodable image with a detection, uploaded to the service started
\* without weights
C5_Witness ==
    /\ phase = "serving" /\ ~weights
    /\ request.endpoint = "/detect"
    /\ request.file.decoded = "image" /\ request.file.outputs # <<>>
    /\ response.status = 503

====
